---- MODULE Spec2Model ----
(***************************************************************************)
(* The subnetwork generator of the AdaNet objective tutorial               *)
(* (adanet/examples/tutorials/adanet_objective.ipynb): _SimpleDNNBuilder,  *)
(* SimpleDNNGenerator and the boosting rounds that drive them.             *)
(***************************************************************************)
EXTENDS Integers, Sequences, FiniteSets, TLC

VARIABLES
    generator,    \* the SimpleDNNGenerator instance (its attributes)
    heap,         \* every _SimpleDNNBuilder object created so far, by identity
    candidates,   \* identities of the builders the caller currently holds
    calls,        \* log of generate_candidates calls: arguments and returned identities
    graph,        \* adanet.Subnetwork objects built in the current graph, by builder
    ensemble,     \* the engine's ensemble: weighted subnetworks in order of addition
    iteration,    \* the engine's iteration number: boosting rounds completed
    ret,          \* what the most recent name, _measure_complexity or train-op call returned
    runs,         \* times the train op in ret was run
    updates,      \* optimizer updates those runs applied to the mixture weights
    training      \* the run of train_and_evaluate: its step budgets and counters, or None

vars == <<generator, heap, candidates, calls, graph, ensemble, iteration, ret, runs,
          updates, training>>

---------------------------------------------------------------------------
(* Bounds of the model *)

MaxCalls == 4
MaxDepth == 10
MaxRuns == 2

(* Program constants *)

RANDOM_SEED == 42
DEFAULT_LAYER_SIZE == 32
_NUM_LAYERS_KEY == "num_layers"
FEATURES_KEY == "x"

(* An optional value (a Python reference that may be None): None is the    *)
(* empty tuple, any other value v is <<v>>.                                *)
None == <<>>

Some(v) == <<v>>

Val(o) == o[1]

---------------------------------------------------------------------------
(* float32 arithmetic, as tf.to_float and tf.sqrt compute it.  A finite    *)
(* non-negative float is [m, e] with value m * 2^(e - 23): m = 0 for zero, *)
(* else 2^23 <= m < 2^24.  The square root of a negative number is NaN.    *)

MantissaBits == 24

Pow2(n) == 2 ^ n

Bit(x, i) == (x \div Pow2(i)) % 2

RECURSIVE Log2(_)
Log2(n) == IF n <= 1 THEN 0 ELSE 1 + Log2(n \div 2)

NaN == [nan |-> TRUE]

FZero == [m |-> 0, e |-> 0]

(* round-to-nearest-even of q with a guard bit and a sticky flag below it *)
RoundNearestEven(q, guard, sticky) ==
    IF guard = 1 /\ (sticky \/ q % 2 = 1) THEN q + 1 ELSE q

(* renormalise after a rounding carry out of the mantissa *)
Normalise(m, e) ==
    IF m = Pow2(MantissaBits) THEN [m |-> Pow2(MantissaBits - 1), e |-> e + 1]
    ELSE [m |-> m, e |-> e]

(* tf.to_float of a signed integer *)
to_float(n) ==
    IF n = 0 THEN FZero
    ELSE LET a == IF n < 0 THEN -n ELSE n
             e == Log2(a)
             mag == IF e < MantissaBits
                    THEN [m |-> a * Pow2(MantissaBits - 1 - e), e |-> e]
                    ELSE LET sh == e - (MantissaBits - 1)
                             q == a \div Pow2(sh)
                             guard == Bit(a, sh - 1)
                             sticky == a % Pow2(sh - 1) # 0
                         IN  Normalise(RoundNearestEven(q, guard, sticky), e)
         IN  IF n < 0 THEN [m |-> mag.m, e |-> mag.e, neg |-> TRUE] ELSE mag

(* Digit-by-digit binary square root of the radicand hi * 2^(MantissaBits - 1), *)
(* two radicand bits per step from pair index p down to 0: returns the     *)
(* integer root q and the remainder r.                                     *)
RECURSIVE SqrtPairs(_, _, _, _)
SqrtPairs(hi, p, q, r) ==
    IF p < 0 THEN [q |-> q, r |-> r]
    ELSE LET lo == MantissaBits - 1
             b1 == IF 2 * p + 1 >= lo THEN Bit(hi, 2 * p + 1 - lo) ELSE 0
             b0 == IF 2 * p >= lo THEN Bit(hi, 2 * p - lo) ELSE 0
             rr == 4 * r + 2 * b1 + b0
             t == 4 * q + 1
         IN  IF rr >= t THEN SqrtPairs(hi, p - 1, 2 * q + 1, rr - t)
             ELSE SqrtPairs(hi, p - 1, 2 * q, rr)

(* tf.sqrt on float32: correctly rounded *)
sqrt_exponent_unadjusted(x) ==
    IF "nan" \in DOMAIN x \/ "neg" \in DOMAIN x THEN NaN
    ELSE IF x.m = 0 THEN FZero
    ELSE LET root == SqrtPairs(x.m, MantissaBits - 1, 0, 0)
             rr == 4 * root.r
             t == 4 * root.q + 1
             guard == IF rr >= t THEN 1 ELSE 0
             rest == IF rr >= t THEN rr - t ELSE rr
         IN  Normalise(RoundNearestEven(root.q, guard, rest # 0), x.e \div 2)

sqrt(x) ==
    IF "nan" \in DOMAIN x \/ "neg" \in DOMAIN x THEN NaN
    ELSE IF x.m = 0 THEN FZero
    ELSE LET odd == x.e % 2 = 1
             hi == IF odd THEN 2 * x.m ELSE x.m
             ee == IF odd THEN x.e - 1 ELSE x.e
             root == SqrtPairs(hi, MantissaBits - 1, 0, 0)
             \* one more pair of zero bits gives the guard bit
             rr == 4 * root.r
             t == 4 * root.q + 1
             guard == IF rr >= t THEN 1 ELSE 0
             rest == IF rr >= t THEN rr - t ELSE rr
         IN  Normalise(RoundNearestEven(root.q, guard, rest # 0), ee \div 2)

---------------------------------------------------------------------------
(* TensorFlow values the code builds and reads back *)

(* tf.constant: a constant tensor holding v *)
tf_constant(v) == [op |-> "Const", value |-> v]

(* tf.contrib.util.constant_value: the value of a constant tensor *)
constant_value(t) == t.value

(* optimizer.minimize(loss, var_list): one optimizer step on var_list *)
minimize(optimizer, loss, var_list) ==
    [type |-> "minimize", optimizer |-> optimizer, loss |-> loss, var_list |-> var_list]

(* tf.no_op() *)
no_op == [type |-> "NoOp"]

(* "{}".format(n) of an integer: its decimal rendering *)
DigitChar(d) ==
    CASE d = 0 -> "0" [] d = 1 -> "1" [] d = 2 -> "2" [] d = 3 -> "3" [] d = 4 -> "4"
      [] d = 5 -> "5" [] d = 6 -> "6" [] d = 7 -> "7" [] d = 8 -> "8" [] d = 9 -> "9"

RECURSIVE DecimalDigits(_)
DecimalDigits(n) ==
    IF n < 10 THEN DigitChar(n)
    ELSE DecimalDigits(n \div 10) \o DigitChar(n % 10)

format(n) == IF n < 0 THEN "-" \o DecimalDigits(-n) ELSE DecimalDigits(n)

---------------------------------------------------------------------------
(* class _SimpleDNNBuilder *)

(* __init__: the attributes of a new builder *)
_SimpleDNNBuilder(optimizer, layer_size, num_layers, learn_mixture_weights, seed) ==
    [optimizer |-> optimizer,
     layer_size |-> layer_size,
     num_layers |-> num_layers,
     learn_mixture_weights |-> learn_mixture_weights,
     seed |-> seed]

(* _measure_complexity: the square root of the depth, in float32 *)
_measure_complexity_linear(self) == to_float(self.num_layers)

_measure_complexity(self) == sqrt(to_float(self.num_layers))

(* the loop of build_subnetwork: one dense relu layer per pass of range(num_layers) *)
RECURSIVE dense_layers(_, _, _)
dense_layers(self, last_layer, i) ==
    IF i >= self.num_layers THEN last_layer
    ELSE dense_layers(self,
                      Append(last_layer, [units |-> self.layer_size,
                                          activation |-> "relu",
                                          kernel_initializer |-> self.seed]),
                      i + 1)

(* build_subnetwork: the adanet.Subnetwork it returns.  A tensor is the     *)
(* sequence of hidden layers between the input features and it.            *)
build_subnetwork_persisting_next(self, features, logits_dimension) ==
    LET input_layer == <<>>
        last_layer == dense_layers(self, input_layer, 0)
        logits == [inputs |-> last_layer,
                   units |-> logits_dimension,
                   kernel_initializer |-> self.seed]
        persisted_tensors == (_NUM_LAYERS_KEY :> tf_constant(self.num_layers + 1))
    IN  [last_layer |-> last_layer,
         logits |-> logits,
         complexity |-> _measure_complexity(self),
         persisted_tensors |-> persisted_tensors]

build_subnetwork(self, features, logits_dimension) ==
    LET input_layer == <<>>
        last_layer == dense_layers(self, input_layer, 0)
        logits == [inputs |-> last_layer,
                   units |-> logits_dimension,
                   kernel_initializer |-> self.seed]
        persisted_tensors == (_NUM_LAYERS_KEY :> tf_constant(self.num_layers))
    IN  [last_layer |-> last_layer,
         logits |-> logits,
         complexity |-> _measure_complexity(self),
         persisted_tensors |-> persisted_tensors]

(* build_subnetwork_train_op *)
build_subnetwork_train_op(self, loss, var_list) ==
    minimize(self.optimizer, loss, var_list)

(* build_mixture_weights_train_op *)
build_mixture_weights_train_op_inverted(self, loss, var_list) ==
    IF self.learn_mixture_weights THEN no_op
    ELSE minimize(self.optimizer, loss, var_list)

build_mixture_weights_train_op(self, loss, var_list) ==
    IF ~self.learn_mixture_weights THEN no_op
    ELSE minimize(self.optimizer, loss, var_list)

(* the name property *)
name_linear_up_to_one(self) ==
    IF self.num_layers <= 1 THEN "linear"
    ELSE format(self.num_layers) \o "_layer_dnn"

name(self) ==
    IF self.num_layers = 0 THEN "linear"
    ELSE format(self.num_layers) \o "_layer_dnn"

---------------------------------------------------------------------------
(* class SimpleDNNGenerator *)

(* __init__: the seed and the partial application of _SimpleDNNBuilder *)
SimpleDNNGenerator(optimizer, layer_size, learn_mixture_weights, seed) ==
    [seed |-> seed,
     dnn_builder_fn |-> [optimizer |-> optimizer,
                         layer_size |-> layer_size,
                         learn_mixture_weights |-> learn_mixture_weights]]

(* self._dnn_builder_fn(num_layers=..., seed=...) *)
_dnn_builder_fn(self, num_layers, seed) ==
    _SimpleDNNBuilder(self.dnn_builder_fn.optimizer,
                      self.dnn_builder_fn.layer_size,
                      num_layers,
                      self.dnn_builder_fn.learn_mixture_weights,
                      seed)

(* the depth generate_candidates starts from: 0, or the "num_layers"       *)
(* tensor persisted by the last weighted subnetwork of previous_ensemble,  *)
(* which is None or an ensemble (and an ensemble is truthy)                *)
previous_num_layers_default_one(previous_ensemble) ==
    IF previous_ensemble # None
    THEN LET ws == Val(previous_ensemble).weighted_subnetworks
         IN  constant_value(ws[Len(ws)].subnetwork.persisted_tensors[_NUM_LAYERS_KEY])
    ELSE 1

previous_num_layers_first_member(previous_ensemble) ==
    IF previous_ensemble # None
    THEN LET ws == Val(previous_ensemble).weighted_subnetworks
         IN  constant_value(ws[1].subnetwork.persisted_tensors[_NUM_LAYERS_KEY])
    ELSE 0

previous_num_layers(previous_ensemble) ==
    IF previous_ensemble # None
    THEN LET ws == Val(previous_ensemble).weighted_subnetworks
         IN  constant_value(ws[Len(ws)].subnetwork.persisted_tensors[_NUM_LAYERS_KEY])
    ELSE 0

(* the seed of the round: None stays None, an integer is offset by the     *)
(* iteration number                                                        *)
iteration_seed_unshifted(self, iteration_number) ==
    self.seed

iteration_seed(self, iteration_number) ==
    IF self.seed # None THEN Some(Val(self.seed) + iteration_number) ELSE self.seed

(* the list generate_candidates returns *)
candidate_list_deeper(self, num_layers, seed) ==
    << _dnn_builder_fn(self, num_layers + 1, seed),
       _dnn_builder_fn(self, num_layers + 2, seed) >>

candidate_list_three(self, num_layers, seed) ==
    << _dnn_builder_fn(self, num_layers, seed),
       _dnn_builder_fn(self, num_layers + 1, seed),
       _dnn_builder_fn(self, num_layers + 2, seed) >>

candidate_list_reseeded(self, num_layers, seed) ==
    << _dnn_builder_fn(self, num_layers, seed),
       _dnn_builder_fn(self, num_layers + 1,
                       IF seed # None THEN Some(Val(seed) + 1) ELSE seed) >>

candidate_list_shallower(self, num_layers, seed) ==
    << _dnn_builder_fn(self, num_layers - 1, seed),
       _dnn_builder_fn(self, num_layers, seed) >>

candidate_list(self, num_layers, seed) ==
    << _dnn_builder_fn(self, num_layers, seed),
       _dnn_builder_fn(self, num_layers + 1, seed) >>

(* generate_candidates: the generator after the call and the builders it   *)
(* returns                                                                 *)
generate_candidates_accumulating(self, previous_ensemble, iteration_number, previous_ensemble_reports, all_reports) ==
    LET num_layers == previous_num_layers(previous_ensemble)
        seed == iteration_seed(self, iteration_number)
    IN  [self |-> [self EXCEPT !.seed = seed],
         ret |-> candidate_list(self, num_layers, seed)]

generate_candidates(self, previous_ensemble, iteration_number, previous_ensemble_reports, all_reports) ==
    LET num_layers == previous_num_layers(previous_ensemble)
        seed == iteration_seed(self, iteration_number)
    IN  [self |-> self,
         ret |-> candidate_list(self, num_layers, seed)]

(* the exception a call of generate_candidates raises, or None: indexing   *)
(* an empty weighted_subnetworks list, a missing "num_layers" key, or a    *)
(* persisted tensor that is no constant (constant_value gives None, and    *)
(* None + 1 is a TypeError).  No value of the depth or of the round index  *)
(* is tested.                                                              *)
generate_candidates_raises_rejecting_negative(self, previous_ensemble, iteration_number) ==
    IF previous_ensemble = None THEN None
    ELSE LET ws == Val(previous_ensemble).weighted_subnetworks
         IN  IF Len(ws) = 0 THEN Some("IndexError")
             ELSE LET tensors == ws[Len(ws)].subnetwork.persisted_tensors
                  IN  IF _NUM_LAYERS_KEY \notin DOMAIN tensors THEN Some("KeyError")
                      ELSE IF tensors[_NUM_LAYERS_KEY].op # "Const" THEN Some("TypeError")
                      ELSE IF constant_value(tensors[_NUM_LAYERS_KEY]) < 0
                           THEN Some("ValueError")
                      ELSE None

generate_candidates_raises(self, previous_ensemble, iteration_number) ==
    IF previous_ensemble = None THEN None
    ELSE LET ws == Val(previous_ensemble).weighted_subnetworks
         IN  IF Len(ws) = 0 THEN Some("IndexError")
             ELSE LET tensors == ws[Len(ws)].subnetwork.persisted_tensors
                  IN  IF _NUM_LAYERS_KEY \notin DOMAIN tensors THEN Some("KeyError")
                      ELSE IF tensors[_NUM_LAYERS_KEY].op # "Const" THEN Some("TypeError")
                      ELSE None

(* the objects a call creates: each constructor call yields a new object,  *)
(* whose identity is its position in the heap                              *)
AllocateInterned(h, objs) ==
    LET find(o) == IF \E i \in 1..Len(h) : h[i] = o
                   THEN CHOOSE i \in 1..Len(h) : h[i] = o
                   ELSE 0
        fresh == SelectSeq(objs, LAMBDA o : find(o) = 0)
        pos(o) == CHOOSE k \in 1..Len(fresh) : fresh[k] = o
    IN  [heap |-> h \o fresh,
         ids |-> [i \in 1..Len(objs) |->
                    IF find(objs[i]) # 0 THEN find(objs[i]) ELSE Len(h) + pos(objs[i])]]

Allocate(h, objs) ==
    [heap |-> h \o objs,
     ids |-> [i \in 1..Len(objs) |-> Len(h) + i]]

---------------------------------------------------------------------------
(* Inputs *)

Optimizers == {"RMSPropOptimizer"}

LayerSizes == {DEFAULT_LAYER_SIZE}

Seeds == {None, Some(RANDOM_SEED)}

Reports == {<<>>, <<"report">>}

Features == (FEATURES_KEY :> "features")

NoReturn == [op |-> "none"]

Range(seq) == {seq[i] : i \in 1..Len(seq)}

---------------------------------------------------------------------------
(* The boosting run: a generator is constructed, then the engine asks it   *)
(* for candidates, builds them, and adds one of them to the ensemble.      *)

Init ==
    /\ generator \in {SimpleDNNGenerator(o, l, f, s) :
                        o \in Optimizers, l \in LayerSizes, f \in BOOLEAN, s \in Seeds}
    /\ heap = <<>>
    /\ candidates = <<>>
    /\ calls = <<>>
    /\ graph = {}
    /\ ensemble = <<>>
    /\ iteration = 0
    /\ ret = NoReturn
    /\ runs = 0
    /\ updates = 0
    /\ training = None

(* the engine's previous_ensemble argument: None before the first addition *)
PreviousEnsemble ==
    IF ensemble = <<>> THEN None ELSE Some([weighted_subnetworks |-> ensemble])

(* a call of generator.generate_candidates: it raises and returns nothing, *)
(* or returns builders, which are new objects                              *)
GenerateCandidates(reports) ==
    /\ generator # None
    /\ Len(calls) < MaxCalls
    /\ LET exc == generate_candidates_raises(generator, PreviousEnsemble, iteration)
       IN  IF exc # None
           THEN /\ calls' = Append(calls, [previous_ensemble |-> PreviousEnsemble,
                                           iteration_number |-> iteration,
                                           ret |-> <<>>,
                                           raised |-> exc])
                /\ UNCHANGED <<generator, heap, candidates, graph, ret, runs, updates>>
           ELSE LET r == generate_candidates(generator, PreviousEnsemble, iteration,
                                             reports, reports)
                    new == Allocate(heap, r.ret)
                    ids == new.ids
                IN  /\ generator' = r.self
                    /\ heap' = new.heap
                    /\ candidates' = ids
                    /\ calls' = Append(calls, [previous_ensemble |-> PreviousEnsemble,
                                               iteration_number |-> iteration,
                                               ret |-> ids,
                                               raised |-> None])
                    /\ graph' = {}
                    /\ ret' = NoReturn
                    /\ runs' = 0
                    /\ updates' = 0
    /\ UNCHANGED <<training, ensemble, iteration>>

(* builder.build_subnetwork(...) in the current graph, once per builder *)
BuildSubnetwork(b) ==
    /\ b \in Range(candidates)
    /\ \A g \in graph : g.builder # b
    /\ graph' = graph \cup {[builder |-> b,
                             subnetwork |-> build_subnetwork(heap[b], Features, 1)]}
    /\ UNCHANGED <<training, generator, heap, candidates, calls, ensemble, iteration, ret, runs,
                   updates>>

(* builder._measure_complexity() *)
MeasureComplexity(b) ==
    /\ b \in Range(candidates)
    /\ ret' = [op |-> "_measure_complexity", self |-> b,
               value |-> _measure_complexity(heap[b])]
    /\ runs' = 0
    /\ updates' = 0
    /\ UNCHANGED <<training, generator, heap, candidates, calls, graph, ensemble, iteration>>

(* builder.name *)
Name(b) ==
    /\ b \in Range(candidates)
    /\ ret' = [op |-> "name", self |-> b, value |-> name(heap[b])]
    /\ runs' = 0
    /\ updates' = 0
    /\ UNCHANGED <<training, generator, heap, candidates, calls, graph, ensemble, iteration>>

(* builder.build_subnetwork_train_op(...) *)
BuildSubnetworkTrainOp(b) ==
    /\ b \in Range(candidates)
    /\ ret' = [op |-> "build_subnetwork_train_op", self |-> b,
               value |-> build_subnetwork_train_op(heap[b], "loss", "subnetwork_vars")]
    /\ runs' = 0
    /\ updates' = 0
    /\ UNCHANGED <<training, generator, heap, candidates, calls, graph, ensemble, iteration>>

(* builder.build_mixture_weights_train_op(...) *)
BuildMixtureWeightsTrainOp(b) ==
    /\ b \in Range(candidates)
    /\ ret' = [op |-> "build_mixture_weights_train_op", self |-> b,
               value |-> build_mixture_weights_train_op(heap[b], "adanet_loss",
                                                        "mixture_weights")]
    /\ runs' = 0
    /\ updates' = 0
    /\ UNCHANGED <<training, generator, heap, candidates, calls, graph, ensemble, iteration>>

(* one training step runs the mixture-weights train op: a NoOp changes     *)
(* nothing, a minimize op applies one update to its var_list               *)
RunMixtureWeightsTrainOp ==
    /\ ret.op = "build_mixture_weights_train_op"
    /\ runs < MaxRuns
    /\ runs' = runs + 1
    /\ updates' = IF ret.value.type = "minimize" THEN updates + 1 ELSE updates
    /\ UNCHANGED <<training, generator, heap, candidates, calls, graph, ensemble, iteration, ret>>

(* the engine ends the round by adding one built candidate to the ensemble *)
EngineAdd(b) ==
    /\ generator # None
    /\ \E g \in graph :
          /\ g.builder = b
          /\ ensemble' = Append(ensemble, [name |-> name(heap[b]),
                                           subnetwork |-> g.subnetwork])
    /\ iteration' = iteration + 1
    /\ candidates' = <<>>
    /\ graph' = {}
    /\ ret' = NoReturn
    /\ runs' = 0
    /\ updates' = 0
    /\ UNCHANGED <<training, generator, heap, calls>>

(* the engine ends the round keeping the previous ensemble: no candidate   *)
(* is incorporated                                                         *)
EngineKeep ==
    /\ generator # None
    /\ candidates # <<>>
    /\ ensemble # <<>>
    /\ iteration' = iteration + 1
    /\ candidates' = <<>>
    /\ graph' = {}
    /\ ret' = NoReturn
    /\ runs' = 0
    /\ updates' = 0
    /\ UNCHANGED <<training, generator, heap, calls, ensemble>>

Next ==
    \/ \E r \in Reports : GenerateCandidates(r)
    \/ \E b \in 1..Len(heap) : BuildSubnetwork(b)
    \/ \E b \in 1..Len(heap) : MeasureComplexity(b)
    \/ \E b \in 1..Len(heap) : Name(b)
    \/ \E b \in 1..Len(heap) : BuildSubnetworkTrainOp(b)
    \/ \E b \in 1..Len(heap) : BuildMixtureWeightsTrainOp(b)
    \/ RunMixtureWeightsTrainOp
    \/ \E b \in 1..Len(heap) : EngineAdd(b)
    \/ EngineKeep

Spec == Init /\ [][Next]_vars

---------------------------------------------------------------------------
(* The builder on its own: two builders are constructed directly with the  *)
(* same optimizer, width, flag and seed and any depths up to MaxDepth, and *)
(* their methods are called.                                               *)

BuilderPairs ==
    {<< _SimpleDNNBuilder(o, l, n[1], f, s), _SimpleDNNBuilder(o, l, n[2], f, s) >> :
        o \in Optimizers, l \in LayerSizes, n \in (0..MaxDepth) \X (0..MaxDepth),
        f \in BOOLEAN, s \in Seeds}

InitBuilder ==
    /\ generator = None
    /\ heap \in BuilderPairs
    /\ candidates = <<1, 2>>
    /\ calls = <<>>
    /\ graph = {}
    /\ ensemble = <<>>
    /\ iteration = 0
    /\ ret = NoReturn
    /\ runs = 0
    /\ updates = 0
    /\ training = None

NextBuilder ==
    \/ \E b \in 1..Len(heap) : BuildSubnetwork(b)
    \/ \E b \in 1..Len(heap) : MeasureComplexity(b)
    \/ \E b \in 1..Len(heap) : Name(b)
    \/ \E b \in 1..Len(heap) : BuildSubnetworkTrainOp(b)
    \/ \E b \in 1..Len(heap) : BuildMixtureWeightsTrainOp(b)
    \/ RunMixtureWeightsTrainOp

SpecBuilder == InitBuilder /\ [][NextBuilder]_vars

---------------------------------------------------------------------------
(* The generator on its own: generate_candidates is called with a previous *)
(* ensemble and a round index chosen by the caller.  The last member of    *)
(* the ensemble was built from a builder of any depth from -MaxNegative to *)
(* MaxDepth, or persists no "num_layers" tensor, or one that is no         *)
(* constant.                                                               *)

MaxNegative == 2

ForeignSubnetworks ==
    {build_subnetwork(_SimpleDNNBuilder(o, l, n, FALSE, None), Features, 1) :
        o \in Optimizers, l \in LayerSizes, n \in (-MaxNegative)..MaxDepth}
    \cup {[last_layer |-> <<>>,
           logits |-> [inputs |-> <<>>, units |-> 1, kernel_initializer |-> None],
           complexity |-> FZero,
           persisted_tensors |-> t] :
            t \in {<<>>, (_NUM_LAYERS_KEY :> [op |-> "Placeholder"])}}

InitPolicy ==
    /\ generator \in {SimpleDNNGenerator(o, l, f, s) :
                        o \in Optimizers, l \in LayerSizes, f \in BOOLEAN, s \in Seeds}
    /\ heap = <<>>
    /\ candidates = <<>>
    /\ calls = <<>>
    /\ graph = {}
    /\ ensemble \in {<<>>} \cup {<<[name |-> "member", subnetwork |-> sub]>> :
                                    sub \in ForeignSubnetworks}
    /\ iteration \in 0..MaxCalls
    /\ ret = NoReturn
    /\ runs = 0
    /\ updates = 0
    /\ training = None

NextPolicy ==
    \/ \E r \in Reports : GenerateCandidates(r)
    \/ \E b \in 1..Len(heap) : BuildSubnetwork(b)
    \/ \E b \in 1..Len(heap) : MeasureComplexity(b)
    \/ \E b \in 1..Len(heap) : Name(b)

SpecPolicy == InitPolicy /\ [][NextPolicy]_vars

---------------------------------------------------------------------------
(* The training run of train_and_evaluate: the estimator is given          *)
(* max_iteration_steps = TRAIN_STEPS // BOOSTING_ITERATIONS train steps    *)
(* per iteration and trains until max_steps = TRAIN_STEPS.  An iteration   *)
(* that has trained its max_iteration_steps ends: one of the candidates    *)
(* generate_candidates proposes for it joins the ensemble and the next     *)
(* iteration starts.  An estimator whose max_iteration_steps is not        *)
(* positive is rejected when it is constructed.                            *)

MaxTrainSteps == 6
MaxBoostingIterations == 4

(* the exception the construction of the estimator raises, or None *)
Estimator_raises(max_iteration_steps) ==
    IF max_iteration_steps <= 0 THEN Some("ValueError") ELSE None

train_and_evaluate(TRAIN_STEPS, BOOSTING_ITERATIONS) ==
    LET max_iteration_steps == TRAIN_STEPS \div BOOSTING_ITERATIONS
    IN  [TRAIN_STEPS |-> TRAIN_STEPS,
         BOOSTING_ITERATIONS |-> BOOSTING_ITERATIONS,
         max_iteration_steps |-> max_iteration_steps,
         max_steps |-> TRAIN_STEPS,
         global_step |-> 0,
         iteration_step |-> 0,
         raised |-> Estimator_raises(max_iteration_steps)]

InitTraining ==
    /\ generator \in {SimpleDNNGenerator(o, l, FALSE, Some(RANDOM_SEED)) :
                        o \in Optimizers, l \in LayerSizes}
    /\ heap = <<>>
    /\ candidates = <<>>
    /\ calls = <<>>
    /\ graph = {}
    /\ ensemble = <<>>
    /\ iteration = 0
    /\ ret = NoReturn
    /\ runs = 0
    /\ updates = 0
    /\ training \in {Some(train_and_evaluate(t, b)) :
                       t \in 1..MaxTrainSteps, b \in 1..MaxBoostingIterations}

(* one train step of the current iteration *)
TrainStep ==
    /\ training # None
    /\ Val(training).raised = None
    /\ Val(training).global_step < Val(training).max_steps
    /\ Val(training).iteration_step < Val(training).max_iteration_steps
    /\ training' = Some([Val(training) EXCEPT !.global_step = @ + 1,
                                               !.iteration_step = @ + 1])
    /\ UNCHANGED <<generator, heap, candidates, calls, graph, ensemble, iteration, ret,
                   runs, updates>>

(* the iteration has used its step budget: the engine adds one of the      *)
(* iteration's candidates to the ensemble and moves to the next iteration  *)
EndIteration ==
    /\ training # None
    /\ Val(training).raised = None
    /\ Val(training).iteration_step = Val(training).max_iteration_steps
    /\ \E r \in Reports :
          \E b \in Range(generate_candidates(generator, PreviousEnsemble, iteration,
                                             r, r).ret) :
              ensemble' = Append(ensemble,
                                 [name |-> name(b),
                                  subnetwork |-> build_subnetwork(b, Features, 1)])
    /\ iteration' = iteration + 1
    /\ training' = Some([Val(training) EXCEPT !.iteration_step = 0])
    /\ UNCHANGED <<generator, heap, candidates, calls, graph, ret, runs, updates>>

NextTraining ==
    \/ TrainStep
    \/ EndIteration

SpecTraining == InitTraining /\ [][NextTraining]_vars

---------------------------------------------------------------------------
(* Properties of the generator (SpecPolicy) *)

(* whether the last member of a previous ensemble exposes a depth, and it *)
ExposesDepth(previous_ensemble) ==
    LET ws == Val(previous_ensemble).weighted_subnetworks
        tensors == ws[Len(ws)].subnetwork.persisted_tensors
    IN  /\ _NUM_LAYERS_KEY \in DOMAIN tensors
        /\ tensors[_NUM_LAYERS_KEY].op = "Const"

ExposedDepth(previous_ensemble) ==
    LET ws == Val(previous_ensemble).weighted_subnetworks
    IN  ws[Len(ws)].subnetwork.persisted_tensors[_NUM_LAYERS_KEY].value

(* C11: generate_candidates has no error outcome of its own: called with   *)
(* no previous ensemble, or with one whose last member exposes a depth d,  *)
(* at any round index >= 0, it raises nothing and returns two candidates,  *)
(* of depths 0 and 1, or d and d + 1; this includes every negative d,      *)
(* which is not rejected.                                                  *)
C11_NoErrorOutcome ==
    \A i \in 1..Len(calls) :
        LET c == calls[i]
            d == IF c.previous_ensemble = None THEN 0
                 ELSE ExposedDepth(c.previous_ensemble)
        IN  (c.previous_ensemble = None \/ ExposesDepth(c.previous_ensemble)) =>
                /\ c.iteration_number >= 0
                /\ c.raised = None
                /\ Len(c.ret) = 2
                /\ heap[c.ret[1]].num_layers = d
                /\ heap[c.ret[2]].num_layers = d + 1

C11_Witness ==
    /\ Len(calls) >= 1
    /\ calls[1].previous_ensemble # None
    /\ ExposesDepth(calls[1].previous_ensemble)
    /\ ExposedDepth(calls[1].previous_ensemble) = -2
    /\ calls[1].iteration_number >= 1
    /\ calls[1].raised = None
    /\ heap[calls[1].ret[1]].num_layers = -2
    /\ heap[calls[1].ret[2]].num_layers = -1
    /\ \E g \in graph :
          /\ g.builder = calls[1].ret[1]
          /\ g.subnetwork.persisted_tensors[_NUM_LAYERS_KEY].value = -2
          /\ g.subnetwork.last_layer = <<>>

---------------------------------------------------------------------------
(* Properties of the boosting run (Spec) *)

Descriptor(id) == heap[id]

(* the number of hidden layers of the subnetwork most recently added to a  *)
(* previous ensemble                                                       *)
LastAddedDepth(previous_ensemble) ==
    LET ws == Val(previous_ensemble).weighted_subnetworks
    IN  Len(ws[Len(ws)].subnetwork.last_layer)

(* C1: whenever generate_candidates was called with a previous ensemble    *)
(* whose most recently added subnetwork has d >= 0 hidden layers, at any   *)
(* round index, the first candidate returned has depth d and the second    *)
(* has depth d + 1.                                                        *)
C1_DepthsFollowPreviousDepth ==
    \A i \in 1..Len(calls) :
        LET c == calls[i]
        IN  c.previous_ensemble # None =>
                LET d == LastAddedDepth(c.previous_ensemble)
                IN  /\ d >= 0
                    /\ Len(c.ret) >= 2
                    /\ Descriptor(c.ret[1]).num_layers = d
                    /\ Descriptor(c.ret[2]).num_layers = d + 1
                    /\ {Descriptor(id).num_layers : id \in Range(c.ret)} = {d, d + 1}

C1_Witness ==
    \E i \in 1..Len(calls) :
        /\ calls[i].previous_ensemble # None
        /\ calls[i].iteration_number >= 2
        /\ LastAddedDepth(calls[i].previous_ensemble) = 2
        /\ Descriptor(calls[i].ret[2]).num_layers = 3

(* C2: whenever generate_candidates was called for round 0 with no         *)
(* previous ensemble, its candidates have depths 0 and 1: the first builds *)
(* a linear model (no hidden layer), the second one hidden layer.          *)
C2_FirstRoundDepths ==
    \A i \in 1..Len(calls) :
        LET c == calls[i]
        IN  (c.previous_ensemble = None /\ c.iteration_number = 0) =>
                /\ Len(c.ret) >= 2
                /\ Descriptor(c.ret[1]).num_layers = 0
                /\ Descriptor(c.ret[2]).num_layers = 1
                /\ {Descriptor(id).num_layers : id \in Range(c.ret)} = {0, 1}
                /\ build_subnetwork(Descriptor(c.ret[1]), Features, 1).last_layer = <<>>
                /\ Len(build_subnetwork(Descriptor(c.ret[2]), Features, 1).last_layer) = 1
                /\ name(Descriptor(c.ret[1])) = "linear"

C2_Witness ==
    /\ Len(calls) >= 1
    /\ calls[1].previous_ensemble = None
    /\ calls[1].iteration_number = 0
    /\ \E g \in graph : g.builder = calls[1].ret[1] /\ g.subnetwork.last_layer = <<>>

(* C3: every call of generate_candidates returned exactly two candidate    *)
(* descriptors, with or without a previous ensemble and at every round     *)
(* index.                                                                  *)
C3_ExactlyTwoCandidates ==
    \A i \in 1..Len(calls) :
        /\ Len(calls[i].ret) = 2
        /\ Cardinality(Range(calls[i].ret)) = 2

C3_Witness ==
    /\ Len(calls) >= 3
    /\ calls[1].previous_ensemble = None
    /\ \E i \in 1..Len(calls) :
          calls[i].previous_ensemble # None /\ calls[i].iteration_number >= 1

(* the fields of a candidate descriptor *)
Fields(id) ==
    [depth |-> heap[id].num_layers,
     width |-> heap[id].layer_size,
     learn_mixture_weights |-> heap[id].learn_mixture_weights,
     seed |-> heap[id].seed]

(* two calls were given the same previous depth, or both no previous ensemble *)
SamePrevious(c1, c2) ==
    \/ c1.previous_ensemble = None /\ c2.previous_ensemble = None
    \/ /\ c1.previous_ensemble # None
       /\ c2.previous_ensemble # None
       /\ LastAddedDepth(c1.previous_ensemble) = LastAddedDepth(c2.previous_ensemble)

(* C7, as stated: any two calls of generate_candidates with the same       *)
(* previous depth (or both with no previous ensemble) returned identical   *)
(* descriptors (depth, width, mixture-learning flag and seed), whatever    *)
(* the round index.                                                        *)
C7_PureFunctionOfDepth ==
    \A i \in 1..Len(calls), j \in 1..Len(calls) :
        SamePrevious(calls[i], calls[j]) =>
            \A k \in 1..2 : Fields(calls[i].ret[k]) = Fields(calls[j].ret[k])

(* C7, amended: any two calls of generate_candidates with the same         *)
(* previous depth (or both with no previous ensemble) returned descriptors *)
(* identical in depth, width and mixture-learning flag, whatever the round *)
(* index and the earlier calls; their seeds are identical too when the     *)
(* round index is the same or the generator has no seed.                   *)
C7_PureFunctionOfDepthAndRound ==
    \A i \in 1..Len(calls), j \in 1..Len(calls) :
        SamePrevious(calls[i], calls[j]) =>
            \A k \in 1..2 :
                LET f1 == Fields(calls[i].ret[k])
                    f2 == Fields(calls[j].ret[k])
                IN  /\ f1.depth = f2.depth
                    /\ f1.width = f2.width
                    /\ f1.learn_mixture_weights = f2.learn_mixture_weights
                    /\ (\/ calls[i].iteration_number = calls[j].iteration_number
                        \/ generator.seed = None) => f1.seed = f2.seed

C7_Witness ==
    \E i \in 1..Len(calls), j \in 1..Len(calls) :
        /\ i + 1 < j
        /\ SamePrevious(calls[i], calls[j])
        /\ SamePrevious(calls[i], calls[i + 1])
        /\ calls[i].iteration_number = calls[i + 1].iteration_number
        /\ calls[i].iteration_number # calls[j].iteration_number
        /\ Fields(calls[i].ret[1]).seed # Fields(calls[j].ret[1]).seed
        /\ Fields(calls[i].ret[1]).seed = Fields(calls[i + 1].ret[1]).seed
        /\ Fields(calls[i].ret[1]).depth = Fields(calls[j].ret[1]).depth

(* C8: a mixture-weights train op built by a candidate whose               *)
(* learn_mixture_weights is False is a no-op, and however often it is run  *)
(* the mixture weights receive no update; when the flag is True the op is  *)
(* the optimizer's minimize over the given loss and variables, applied at  *)
(* every run.  The flag of every candidate is the generator's flag.        *)
C8_MixtureWeightsTrainOp ==
    /\ ret.op = "build_mixture_weights_train_op" =>
          LET self == heap[ret.self]
          IN  IF ~self.learn_mixture_weights
              THEN ret.value = no_op /\ updates = 0
              ELSE /\ ret.value = minimize(self.optimizer, "adanet_loss", "mixture_weights")
                   /\ updates = runs
    /\ \A i \in 1..Len(calls) : \A id \in Range(calls[i].ret) :
          heap[id].learn_mixture_weights = generator.dnn_builder_fn.learn_mixture_weights

C8_Witness ==
    /\ ~generator.dnn_builder_fn.learn_mixture_weights
    /\ ret.op = "build_mixture_weights_train_op"
    /\ ret.value = no_op
    /\ runs >= 2
    /\ updates = 0

(* C9: the two candidates of every call differ only in depth: they have    *)
(* the generator's layer width, optimizer and mixture-learning flag, and   *)
(* the same seed, which is the generator's seed offset by the round index  *)
(* (or None when the generator has none).                                  *)
C9_CandidatesDifferOnlyInDepth ==
    \A i \in 1..Len(calls) :
        LET c == calls[i]
            b1 == heap[c.ret[1]]
            b2 == heap[c.ret[2]]
            conf == generator.dnn_builder_fn
            seed == IF generator.seed = None THEN None
                    ELSE Some(Val(generator.seed) + c.iteration_number)
        IN  /\ b1.num_layers # b2.num_layers
            /\ [b1 EXCEPT !.num_layers = b2.num_layers] = b2
            /\ \A b \in {b1, b2} :
                  /\ b.layer_size = conf.layer_size
                  /\ b.optimizer = conf.optimizer
                  /\ b.learn_mixture_weights = conf.learn_mixture_weights
                  /\ b.seed = seed

C9_Witness ==
    \E i \in 1..Len(calls) :
        /\ calls[i].iteration_number = 2
        /\ heap[calls[i].ret[1]].seed = Some(RANDOM_SEED + 2)
        /\ heap[calls[i].ret[2]].seed = Some(RANDOM_SEED + 2)
        /\ heap[calls[i].ret[2]].layer_size = DEFAULT_LAYER_SIZE

(* C10: a candidate descriptor never changes once created, whatever is     *)
(* called later (build_subnetwork, name, _measure_complexity, the train-op *)
(* builders, further generate_candidates calls, the end of the round), and *)
(* every call of generate_candidates returns objects that did not exist    *)
(* before it.                                                              *)
C10_DescriptorsImmutableAndFresh ==
    [][/\ Len(heap') >= Len(heap)
       /\ \A id \in 1..Len(heap) : heap'[id] = heap[id]
       /\ \A i \in 1..Len(calls) : calls'[i] = calls[i]
       /\ Len(calls') > Len(calls) =>
             \A id \in Range(calls'[Len(calls')].ret) :
                 /\ id > Len(heap)
                 /\ id <= Len(heap')]_vars

C10_Witness ==
    /\ Len(calls) >= 2
    /\ calls[1].iteration_number = calls[2].iteration_number
    /\ heap[calls[1].ret[1]] = heap[calls[2].ret[1]]
    /\ calls[1].ret[1] # calls[2].ret[1]
    /\ graph # {}
    /\ ret.op = "name"

(* the number of hidden layers of each member of the ensemble, in order of *)
(* addition                                                                *)
MemberDepths == [j \in 1..Len(ensemble) |-> Len(ensemble[j].subnetwork.last_layer)]

(* C12: every candidate proposed with a previous ensemble has at least as  *)
(* many hidden layers as the most recently added subnetwork, and along the *)
(* ensemble each member is as deep as its predecessor or exactly one layer *)
(* deeper, so the depths in order of addition never decrease.              *)
C12_DepthsNonDecreasing ==
    /\ \A i \in 1..Len(calls) :
          calls[i].previous_ensemble # None =>
              \A id \in Range(calls[i].ret) :
                  Descriptor(id).num_layers >= LastAddedDepth(calls[i].previous_ensemble)
    /\ \A j \in 2..Len(ensemble) :
          MemberDepths[j] - MemberDepths[j - 1] \in {0, 1}
    /\ \A j, k \in 1..Len(ensemble) : j <= k => MemberDepths[j] <= MemberDepths[k]

C12_Witness ==
    /\ Len(ensemble) >= 3
    /\ MemberDepths[1] = 1
    /\ MemberDepths[2] = 2
    /\ MemberDepths[3] = 2
    /\ Len(calls) >= 3
    /\ calls[3].previous_ensemble # None
    /\ LastAddedDepth(calls[3].previous_ensemble) = 2

(* C13: a subnetwork built from a candidate of depth n has exactly n       *)
(* hidden layers (for n = 0 the logits layer takes the input itself) and   *)
(* persists n under "num_layers" and nothing else; and the depth a call    *)
(* with a previous ensemble starts from is the one persisted by the last   *)
(* member of that ensemble, which carries the name, the hidden layers and  *)
(* the persisted tensors of a candidate proposed by an earlier call, of    *)
(* that same depth.                                                        *)
C13_ReadsDepthOfLastAdded ==
    /\ \A g \in graph :
          LET n == Descriptor(g.builder).num_layers
          IN  /\ Len(g.subnetwork.last_layer) = n
              /\ (n = 0 => g.subnetwork.logits.inputs = <<>>)
              /\ g.subnetwork.logits.inputs = g.subnetwork.last_layer
              /\ DOMAIN g.subnetwork.persisted_tensors = {_NUM_LAYERS_KEY}
              /\ g.subnetwork.persisted_tensors[_NUM_LAYERS_KEY] = tf_constant(n)
    /\ \A i \in 1..Len(calls) :
          LET c == calls[i]
          IN  c.previous_ensemble # None =>
                  LET ws == Val(c.previous_ensemble).weighted_subnetworks
                      last == ws[Len(ws)]
                      read == Descriptor(c.ret[1]).num_layers
                  IN  /\ read = last.subnetwork.persisted_tensors[_NUM_LAYERS_KEY].value
                      /\ read = Len(last.subnetwork.last_layer)
                      /\ \E j \in 1..(i - 1) : \E id \in Range(calls[j].ret) :
                            /\ Descriptor(id).num_layers = read
                            /\ last.name = name(Descriptor(id))
                            /\ last.subnetwork.last_layer
                                   = dense_layers(Descriptor(id), <<>>, 0)
                            /\ last.subnetwork.persisted_tensors
                                   = (_NUM_LAYERS_KEY :> tf_constant(Descriptor(id).num_layers))

C13_Witness ==
    /\ Len(calls) >= 3
    /\ calls[3].previous_ensemble # None
    /\ Len(Val(calls[3].previous_ensemble).weighted_subnetworks) = 2
    /\ Len(Val(calls[3].previous_ensemble).weighted_subnetworks[1].subnetwork.last_layer) = 0
    /\ LastAddedDepth(calls[3].previous_ensemble) = 1
    /\ Descriptor(calls[3].ret[1]).num_layers = 1
    /\ \E g \in graph : /\ Descriptor(g.builder).num_layers = 2
                         /\ Len(g.subnetwork.last_layer) = 2

(* C15: a candidate proposed in round i has depth at most i + 1; after k   *)
(* rounds no member of the ensemble has more than k hidden layers; and the *)
(* first member, added in round 0, is the linear model or the one-layer    *)
(* network.                                                                *)
C15_DepthBoundedByRound ==
    /\ \A i \in 1..Len(calls) : \A id \in Range(calls[i].ret) :
          Descriptor(id).num_layers <= calls[i].iteration_number + 1
    /\ \A j \in 1..Len(ensemble) :
          /\ MemberDepths[j] <= iteration
          /\ MemberDepths[j] <= j
    /\ Len(ensemble) >= 1 =>
          /\ MemberDepths[1] \in {0, 1}
          /\ ensemble[1].name \in {"linear", "1_layer_dnn"}

C15_Witness ==
    /\ Len(ensemble) = 3
    /\ iteration = 3
    /\ MemberDepths = <<1, 2, 3>>
    /\ Len(calls) = 3
    /\ Descriptor(calls[3].ret[2]).num_layers = calls[3].iteration_number + 1

(* the seed the claim gives round k of a generator constructed with seed s *)
SeedForRound(s, k) == IF s = None THEN None ELSE Some(Val(s) + k)

(* C16: no step changes the generator, so its stored seed stays the one it *)
(* was constructed with; after every step that logs a call or touches a    *)
(* builder, both candidates of every logged call of round k carry that     *)
(* seed plus k (no seed when there is none) and, with a seed, calls of     *)
(* distinct rounds carry distinct seeds; and after every step a further    *)
(* call for any round k would return that seed plus k too, whatever calls  *)
(* came before.                                                            *)
C16_SeedIsStoredSeedPlusRound ==
    [][/\ generator' = generator
       /\ (calls' # calls \/ heap' # heap) =>
             /\ \A i \in 1..Len(calls') : \A id \in Range(calls'[i].ret) :
                   heap'[id].seed = SeedForRound(generator.seed,
                                                 calls'[i].iteration_number)
             /\ \A i, j \in 1..Len(calls') :
                   (/\ generator.seed # None
                    /\ calls'[i].iteration_number # calls'[j].iteration_number) =>
                       heap'[calls'[i].ret[1]].seed # heap'[calls'[j].ret[1]].seed
       /\ \A k \in 0..MaxCalls :
             LET r == generate_candidates(generator', PreviousEnsemble', k, <<>>, <<>>)
             IN  /\ r.self = generator
                 /\ Len(r.ret) = 2
                 /\ \A j \in 1..2 : r.ret[j].seed = SeedForRound(generator.seed, k)
      ]_vars

C16_Witness ==
    /\ generator.seed = Some(RANDOM_SEED)
    /\ Len(calls) >= 3
    /\ calls[1].iteration_number = 0
    /\ calls[2].iteration_number = 1
    /\ calls[3].iteration_number = 1
    /\ \A id \in Range(calls[1].ret) : heap[id].seed = Some(RANDOM_SEED)
    /\ \A id \in Range(calls[2].ret) \cup Range(calls[3].ret) :
          heap[id].seed = Some(RANDOM_SEED + 1)

---------------------------------------------------------------------------
(* Properties of the builder (SpecBuilder) *)

(* a <= b on floats; every comparison with NaN is false *)
FLe(a, b) ==
    /\ "nan" \notin DOMAIN a
    /\ "nan" \notin DOMAIN b
    /\ \/ a.m = 0
       \/ /\ b.m # 0
          /\ \/ a.e < b.e
             \/ a.e = b.e /\ a.m <= b.m

(* the integer part of a finite non-negative float below 2^MantissaBits *)
FFloor(a) ==
    IF a.m = 0 THEN 0
    ELSE IF a.e < 0 THEN 0
    ELSE a.m \div Pow2(MantissaBits - 1 - a.e)

(* whether a finite non-negative float is an integer below 2^MantissaBits *)
FIsInt(a) ==
    /\ "nan" \notin DOMAIN a
    /\ \/ a.m = 0
       \/ /\ a.e >= 0
          /\ a.e < MantissaBits
          /\ a.m % Pow2(MantissaBits - 1 - a.e) = 0

(* every complexity score computed so far, with the depth it was computed  *)
(* for: by _measure_complexity directly or inside build_subnetwork         *)
Measured ==
    {[depth |-> heap[g.builder].num_layers, value |-> g.subnetwork.complexity] :
        g \in graph}
    \cup (IF ret.op = "_measure_complexity"
          THEN {[depth |-> heap[ret.self].num_layers, value |-> ret.value]}
          ELSE {})

(* C4: the complexity score of a candidate of depth d >= 0 is the square   *)
(* root of d: score(0) = 0, score(1) = 1, score(4) = 2, for every perfect  *)
(* square d the score is the integer k with k * k = d, so that             *)
(* score(d) * score(d) = d, and for every d the score lies between the     *)
(* integers that bracket the square root of d.                             *)
C4_ComplexityIsSquareRoot ==
    \A r \in Measured :
        LET d == r.depth
            v == r.value
        IN  /\ d >= 0
            /\ "nan" \notin DOMAIN v
            /\ d = 0 => v = FZero
            /\ d = 1 => FIsInt(v) /\ FFloor(v) = 1
            /\ d = 4 => FIsInt(v) /\ FFloor(v) = 2
            /\ \A k \in 0..d :
                  k * k = d => FIsInt(v) /\ FFloor(v) = k /\ FFloor(v) * FFloor(v) = d
            /\ FFloor(v) * FFloor(v) <= d
            /\ d < (FFloor(v) + 1) * (FFloor(v) + 1)
            /\ (FIsInt(v) => FFloor(v) * FFloor(v) = d)

C4_Witness ==
    /\ ret.op = "_measure_complexity"
    /\ heap[ret.self].num_layers = 9
    /\ FIsInt(ret.value)
    /\ FFloor(ret.value) = 3
    /\ \E g \in graph : heap[g.builder].num_layers = 4 /\ FFloor(g.subnetwork.complexity) = 2

(* C5: the complexity score is monotonically non-decreasing in depth: for  *)
(* any two scores computed for depths d1 < d2, score(d1) <= score(d2); in  *)
(* particular for the depths d and d + 1 of one round's two candidates.    *)
C5_ComplexityMonotone ==
    \A r1 \in Measured, r2 \in Measured :
        /\ r1.depth < r2.depth => FLe(r1.value, r2.value)
        /\ r1.depth = r2.depth => r1.value = r2.value

C5_Witness ==
    \E g1 \in graph, g2 \in graph :
        /\ heap[g1.builder].num_layers = 7
        /\ heap[g2.builder].num_layers = 8
        /\ FLe(g1.subnetwork.complexity, g2.subnetwork.complexity)
        /\ ~FLe(g2.subnetwork.complexity, g1.subnetwork.complexity)

(* reading a decimal numeral back: the number it denotes, or -1 *)
DigitValue(ch) ==
    CASE ch = "0" -> 0 [] ch = "1" -> 1 [] ch = "2" -> 2 [] ch = "3" -> 3
      [] ch = "4" -> 4 [] ch = "5" -> 5 [] ch = "6" -> 6 [] ch = "7" -> 7
      [] ch = "8" -> 8 [] ch = "9" -> 9 [] OTHER -> -1

RECURSIVE ParseDecimal(_)
ParseDecimal(str) ==
    IF Len(str) = 0 THEN -1
    ELSE LET last == DigitValue(SubSeq(str, Len(str), Len(str)))
             front == SubSeq(str, 1, Len(str) - 1)
         IN  IF last < 0 THEN -1
             ELSE IF Len(str) = 1 THEN last
             ELSE IF ParseDecimal(front) <= 0 THEN -1
             ELSE 10 * ParseDecimal(front) + last

NameSuffix == "_layer_dnn"

(* C6: the name of a candidate of depth 0 is "linear"; the name of a       *)
(* candidate of depth n > 0 is the decimal numeral of n, without leading   *)
(* zeros, followed by "_layer_dnn", and is never "linear".                 *)
C6_Names ==
    ret.op = "name" =>
        LET n == heap[ret.self].num_layers
            v == ret.value
            k == Len(v) - Len(NameSuffix)
        IN  /\ n = 0 => v = "linear"
            /\ n > 0 =>
                  /\ v # "linear"
                  /\ k >= 1
                  /\ SubSeq(v, k + 1, Len(v)) = NameSuffix
                  /\ ParseDecimal(SubSeq(v, 1, k)) = n
            /\ n = 1 => v = "1_layer_dnn"
            /\ n = 5 => v = "5_layer_dnn"
            /\ n = 10 => v = "10_layer_dnn"

C6_Witness ==
    /\ ret.op = "name"
    /\ heap[ret.self].num_layers = 10
    /\ ret.value = "10_layer_dnn"
    /\ heap[3 - ret.self].num_layers = 0

---------------------------------------------------------------------------
(* Properties of the training run (SpecTraining) *)

(* training has stopped: the estimator was rejected, or max_steps train    *)
(* steps were taken and no iteration is left to end                        *)
TrainingStopped ==
    /\ training # None
    /\ \/ Val(training).raised # None
       \/ /\ Val(training).global_step = Val(training).max_steps
          /\ Val(training).iteration_step < Val(training).max_iteration_steps

(* C14: for positive TRAIN_STEPS and BOOSTING_ITERATIONS, when training    *)
(* has stopped exactly BOOSTING_ITERATIONS iterations were run and the     *)
(* ensemble is composed of BOOSTING_ITERATIONS subnetworks.                *)
C14_RunsBoostingIterations ==
    TrainingStopped =>
        /\ iteration = Val(training).BOOSTING_ITERATIONS
        /\ Len(ensemble) = Val(training).BOOSTING_ITERATIONS

====
